---- MODULE Spec2Model ----
(***************************************************************************)
(* A model of content.py: the paginated, disk-cached fetch client          *)
(* (fetch_repo_content), called by one client at a time or by several at   *)
(* once, the remote aggregation run (process_github_repo), the local       *)
(* aggregation run (process_folder), and the functions parse_github_url    *)
(* and get_folder_files.                                                   *)
(*                                                                         *)
(* Strings that the code takes apart (URLs, paths) are sequences of        *)
(* tokens; "/" and "_" are tokens of their own, so that the file name      *)
(* computed by url.replace('/', '_') is computed, not assumed.             *)
(***************************************************************************)
EXTENDS Integers, Sequences, FiniteSets, TLC

(***************************************************************************)
(* Bounds of the model.                                                    *)
(***************************************************************************)
MaxItems == 5
MaxPerPage == 2
MaxOps == 2
MaxChanges == 1
MaxWorkers == 2
MaxPathLen == 4
MaxFiles == 1
MaxCalls == 3

(***************************************************************************)
(* Program constants.                                                      *)
(***************************************************************************)
GITHUB_API_URL == <<"https:", "/", "/", "api.github.com">>
SUPPORTED_FILETYPES == {".py", ".ipynb", ".html", ".css", ".js", ".jsx", ".md", ".rst"}
DefaultPerPage == 100
DefaultBranch == "main"

(***************************************************************************)
(* JSON values.  A response body or a cache file's content is a list or an *)
(* object; an object keeps its keys in insertion order.                    *)
(***************************************************************************)
JList(s) == [kind |-> "list", elems |-> s]
JDict(ks, f) == [kind |-> "dict", keys |-> ks, at |-> f]
None == [kind |-> "none"]

\* What iterating a JSON value yields: a list's elements, an object's keys.
Iter(v) == IF v.kind = "list" THEN v.elems ELSE v.keys
\* len(v)
Length(v) == Len(Iter(v))
\* json.dump / json.load: the text written to a file and the value read back.
JsonDump(v) == [json |-> v]
JsonLoad(t) == t.json

(***************************************************************************)
(* The universe of the model: one repository, its URLs, the cache          *)
(* directories, the items of a paginated collection.                       *)
(***************************************************************************)
CacheDirs == {"c1", "c2"}
Owner == <<"o">>
Repo == <<"r">>
Items == [i \in 1..MaxItems |-> ToString(i)]

RepoUrl(owner, repo) == GITHUB_API_URL \o <<"/", "repos", "/">> \o owner \o <<"/">> \o repo
IssuesUrl == RepoUrl(Owner, Repo) \o <<"/", "issues">>

\* url.replace('/', '_') followed by ".json"
CacheFile(url) ==
    [i \in 1..Len(url) |-> IF url[i] = "/" THEN "_" ELSE url[i]] \o <<".json">>

ReadmeUrl(owner, repo) == RepoUrl(owner, repo) \o <<"/", "contents", "/", "README.md">>
TreeUrl(owner, repo) ==
    RepoUrl(owner, repo) \o <<"/", "git", "/", "trees", "/", DefaultBranch, "?recursive=1">>
ContentUrl(owner, repo, path) == RepoUrl(owner, repo) \o <<"/", "contents", "/">> \o path

\* Paths of the remote tree: a path is its directory tokens and its file name,
\* the extension being the last token.
PathA == <<"a", ".py">>
PathB == <<"b", ".txt">>
PathC == <<"docs", "/", "c", ".md">>
PathD == <<"docs">>
\* Two paths that differ in one character, "/" against "_".
PathSlash == <<"a", "/", "b", ".py">>
PathUnderscore == <<"a", "_", "b", ".py">>
Paths == {PathA, PathB, PathC, PathD, PathSlash, PathUnderscore}

AllUrls ==
    {IssuesUrl, ReadmeUrl(Owner, Repo), TreeUrl(Owner, Repo)}
        \cup {ContentUrl(Owner, Repo, p) : p \in Paths}

(***************************************************************************)
(* parse_github_url.  A URL is the scheme, "//", the host, the tokens of    *)
(* the path and, possibly, a query.                                        *)
(***************************************************************************)
HostPrefix == <<"https:", "/", "/", "github.com">>
Query == "?tab=readme"
PathTokens == {"/", "o", "r"}
GitPaths == UNION {[1..n -> PathTokens] : n \in 0..MaxPathLen}
GitUrls == {HostPrefix \o p : p \in GitPaths} \cup {HostPrefix \o p \o <<Query>> : p \in GitPaths}

\* urlparse(url).path: what follows the host, up to the query.
UrlPath(url) ==
    LET rest == SubSeq(url, Len(HostPrefix) + 1, Len(url)) IN
    IF rest # <<>> /\ rest[Len(rest)] = Query THEN SubSeq(rest, 1, Len(rest) - 1) ELSE rest

\* s.strip("/"): the leading and the trailing "/" are removed.
Strip(s) ==
    LET keep == {i \in 1..Len(s) : s[i] # "/"} IN
    IF keep = {} THEN <<>>
    ELSE SubSeq(s, CHOOSE i \in keep : \A j \in keep : i <= j,
                   CHOOSE i \in keep : \A j \in keep : i >= j)

\* s.split("/"): the pieces between the "/", the empty ones too.
RECURSIVE Split(_)
Split(s) ==
    LET at == {i \in 1..Len(s) : s[i] = "/"} IN
    IF at = {} THEN <<s>>
    ELSE LET k == CHOOSE i \in at : \A j \in at : i <= j IN
         <<SubSeq(s, 1, k - 1)>> \o Split(SubSeq(s, k + 1, Len(s)))

\* path_segments = parsed_url.path.strip("/").split("/")
Segments(url) == Split(Strip(UrlPath(url)))

\* The pair (path_segments[0], path_segments[1]), or ValueError.
parse_github_url(url) ==
    LET path_segments == Segments(url) IN
    IF Len(path_segments) >= 2
    THEN [raised |-> "", value |-> <<path_segments[1], path_segments[2]>>]
    ELSE [raised |-> "ValueError", value |-> <<>>]

(***************************************************************************)
(* The remote API.  The state of the server is the number of items of the  *)
(* issues collection and the sha of the tree at the default branch.        *)
(***************************************************************************)
Shas == {"s1", "s2"}
Entry(p, t) == [path |-> p, type |-> t]
TreeEntries(sha) ==
    IF sha = "s1"
    THEN <<Entry(PathA, "blob"), Entry(PathD, "tree"), Entry(PathB, "blob"),
           Entry(PathC, "blob")>>
    ELSE <<Entry(PathD, "tree"), Entry(PathC, "blob"), Entry(PathA, "blob")>>

\* base64: the encoded form of a text, and b64decode(..).decode('utf-8').
B64(text) == <<"b64", text>>
Undecodable == "\\xff"
Decodable(c) == c[2] # Undecodable
B64Decode(c) == c[2]

ReadmeText == "readme"
BlobText(path) ==
    IF path = PathC THEN "text-c"
    ELSE IF path = PathUnderscore THEN "text-u"
    ELSE "text-a"
Blob(name, text) == JDict(<<"name", "content">>, [name |-> name, content |-> B64(text)])

Min(a, b) == IF a < b THEN a ELSE b

\* The resource the server holds at a URL.
Resource(rem, url) ==
    IF url = IssuesUrl THEN JList(SubSeq(Items, 1, rem.n))
    ELSE IF url = ReadmeUrl(Owner, Repo) THEN Blob("README.md", ReadmeText)
    ELSE IF url = TreeUrl(Owner, Repo)
    THEN JDict(<<"sha", "tree">>, [sha |-> rem.sha, tree |-> TreeEntries(rem.sha)])
    ELSE Blob("file", BlobText(SubSeq(url, Len(RepoUrl(Owner, Repo)) + 4, Len(url))))

\* The body the server sends for "url?per_page=pp&page=page": one page of a
\* collection, or the object itself.
ServerBody(rem, url, pp, page) ==
    LET r == Resource(rem, url) IN
    IF r.kind = "list"
    THEN JList(SubSeq(r.elems, (page - 1) * pp + 1, Min(page * pp, Len(r.elems))))
    ELSE r

(***************************************************************************)
(* State.                                                                  *)
(*   files    the cache directories: file name -> text of the file         *)
(*   remote   the server's state                                           *)
(*   fetch    the frame of the running (or just finished) call of          *)
(*            fetch_repo_content                                           *)
(*   op       the operation the client is in: "idle", "fetch" (a direct    *)
(*            call of fetch_repo_content), "repo", "folder"                *)
(*   run      the frame of the running (or last) process_github_repo      *)
(*   pool     the frame of the running (or last) process_folder           *)
(*   ops      the number of operations started                             *)
(*   changes  the number of changes of the remote state                    *)
(*   first    history: what the first successful call for a URL and a      *)
(*            cache directory returned                                     *)
(*   call     the frame of a call of a function that touches no state:     *)
(*            parse_github_url, get_folder_files                           *)
(*   procs    the frames of the clients that call fetch_repo_content at    *)
(*            the same time on one cache directory                         *)
(***************************************************************************)
VARIABLES files, remote, fetch, op, run, pool, ops, changes, first, call, procs

vars == <<files, remote, fetch, op, run, pool, ops, changes, first, call, procs>>

NoFile == <<>>
Exists(dir, name) == name \in DOMAIN dir
\* (a write that leaves the new file alone in its directory)
WriteFileAlone(dir, name, text) == [x \in {name} |-> text]

\* open(name, 'w') and write: the file holds exactly the new text.
WriteFile(dir, name, text) ==
    [x \in (DOMAIN dir) \cup {name} |-> IF x = name THEN text ELSE dir[x]]

IdleFetch ==
    [pc |-> "idle", url |-> <<>>, cache_dir |-> "c1", per_page |-> 0, page |-> 0,
     all_items |-> <<>>, reqs |-> <<>>, result |-> None, prior |-> None,
     files0 |-> NoFile, dirty |-> FALSE]

\* The fields after "error" are history: the value returned, the URLs the run
\* fetched, the stages whose fetch raised, the snapshot record and the remote
\* sha at the start, and whether the run directly follows a run on the same
\* cache directory that met no fetch error and saw the same remote tree.
IdleRun ==
    [pc |-> "idle", cache_dir |-> "c1", formatted_string |-> <<>>,
     tree_info |-> None, file_paths |-> <<>>, i |-> 0, error |-> "",
     returned |-> FALSE, document |-> <<>>, calls |-> <<>>, errs |-> <<>>,
     loaded |-> <<>>, snap0 |-> None, sha0 |-> "", second |-> FALSE]

\* No function is being called; no client is running.
IdleCall == [pc |-> "idle", fn |-> "", arg |-> <<>>, result |-> <<>>]
NoProcs == <<>>

IdlePool ==
    [pc |-> "idle", file_paths |-> <<>>, workers |-> 0, bad |-> {}, next |-> 1,
     busy |-> {}, results |-> <<>>, completed |-> <<>>, file_contents |-> <<>>,
     returned |-> FALSE, document |-> <<>>]

\* (a fetch that never finds its cache file)
CacheHitNever(d, url) == FALSE

\* os.path.exists(cache_file)
CacheHit(d, url) == Exists(files[d], CacheFile(url))

\* (a loop that also stops at a full page)
TerminalPageInclusive(n, pp) == n <= pp

\* if len(items) < per_page: break
TerminalPage(n, pp) == n < pp

\* fetch_repo_content up to its first request: a cache hit returns the
\* file's content, a miss starts the pagination at page 1.
FetchCall(url, d, pp) ==
    LET base == [IdleFetch EXCEPT !.url = url, !.cache_dir = d, !.per_page = pp,
                                  !.prior = first[d][url], !.files0 = files[d]]
    IN  IF CacheHit(d, url)
        THEN [base EXCEPT !.pc = "returned",
                          !.result = JsonLoad(files[d][CacheFile(url)])]
        ELSE [base EXCEPT !.pc = "request", !.page = 1]

\* History: the first value returned for (d, url).
Remember(d, url, v) ==
    IF first[d][url] = None THEN [first EXCEPT ![d][url] = v] ELSE first

\* requests.get(paginated_url): the request for the current page leaves.
SendRequest ==
    /\ fetch.pc = "request"
    /\ fetch' = [fetch EXCEPT !.pc = "response", !.reqs = Append(@, fetch.page)]
    /\ UNCHANGED <<files, remote, op, run, ops, changes, first, pool>>
    /\ UNCHANGED <<call, procs>>

\* A success status: the page's items are appended; a terminal page ends
\* the loop, the collection is written to the cache file and returned.
ReceiveOk ==
    /\ fetch.pc = "response"
    /\ LET items == ServerBody(remote, fetch.url, fetch.per_page, fetch.page)
           all == fetch.all_items \o Iter(items)
           d == fetch.cache_dir
       IN  IF TerminalPage(Length(items), fetch.per_page)
           THEN /\ files' = [files EXCEPT
                        ![d] = WriteFile(@, CacheFile(fetch.url), JsonDump(JList(all)))]
                /\ fetch' = [fetch EXCEPT !.pc = "returned", !.all_items = all,
                                          !.result = JList(all)]
                /\ first' = Remember(d, fetch.url, JList(all))
           ELSE /\ fetch' = [fetch EXCEPT !.pc = "request", !.all_items = all,
                                          !.page = @ + 1]
                /\ UNCHANGED <<files, first, pool>>
    /\ UNCHANGED <<remote, op, run, ops, changes, pool>>
    /\ UNCHANGED <<call, procs>>

\* (a fetch that saves the pages it has before it raises)
ReceiveErrorPersist ==
    /\ fetch.pc = "response"
    /\ fetch' = [fetch EXCEPT !.pc = "raised"]
    /\ files' = [files EXCEPT ![fetch.cache_dir] =
                    WriteFile(@, CacheFile(fetch.url), JsonDump(JList(fetch.all_items)))]
    /\ UNCHANGED <<remote, op, run, ops, changes, first, pool>>
    /\ UNCHANGED <<call, procs>>

\* A non-success status: response.raise_for_status() raises.
ReceiveError ==
    /\ fetch.pc = "response"
    /\ fetch' = [fetch EXCEPT !.pc = "raised"]
    /\ UNCHANGED <<files, remote, op, run, ops, changes, first, pool>>
    /\ UNCHANGED <<call, procs>>

\* A direct call fetch_repo_content(url, cache_dir=d, per_page=pp).
DirectCalls ==
    {<<IssuesUrl, pp>> : pp \in 1..MaxPerPage}
        \cup {<<ReadmeUrl(Owner, Repo), DefaultPerPage>>}

\* The calls load_file_content makes for two files of the repository:
\* fetch_repo_content(file_url, token, cache_dir).
ContentCalls ==
    {<<ContentUrl(Owner, Repo, p), DefaultPerPage>> : p \in {PathSlash, PathUnderscore}}

\* The client calls fetch_repo_content with one of the calls.
CallOneOf(calls) ==
    /\ op = "idle"
    /\ ops < MaxOps
    /\ \E c \in calls, d \in CacheDirs :
          /\ fetch' = FetchCall(c[1], d, c[2])
          /\ first' = IF CacheHit(d, c[1])
                      THEN Remember(d, c[1], JsonLoad(files[d][CacheFile(c[1])]))
                      ELSE first
    /\ op' = "fetch"
    /\ ops' = ops + 1
    /\ run' = IdleRun
    /\ pool' = IdlePool
    /\ UNCHANGED <<files, remote, changes>>
    /\ UNCHANGED <<call, procs>>

DirectFetch == CallOneOf(DirectCalls)

\* A file's content is fetched, as load_file_content fetches it.
ContentFetch == CallOneOf(ContentCalls)

\* The direct call is over: its value or its exception is the caller's.
DirectReturn ==
    /\ op = "fetch"
    /\ fetch.pc \in {"returned", "raised"}
    /\ op' = "idle"
    /\ fetch' = IdleFetch
    /\ UNCHANGED <<files, remote, run, ops, changes, first, pool>>
    /\ UNCHANGED <<call, procs>>

(***************************************************************************)
(* Clients that call fetch_repo_content at the same time, each in its own  *)
(* process, on one cache directory.  A client's frame is the frame of its  *)
(* running or last call; a step of a client is what the call does between  *)
(* two accesses to the network or the disk.                                *)
(***************************************************************************)
Clients == {"p1", "p2"}
ClientDir == "c1"
ClientUrls == {IssuesUrl, ReadmeUrl(Owner, Repo)}
ClientCalls ==
    {<<IssuesUrl, pp>> : pp \in 1..MaxPerPage}
        \cup {<<ReadmeUrl(Owner, Repo), DefaultPerPage>>}

\* The fields after "result" are history: whether the call was served from
\* the cache, the URLs whose pages this client has fetched to the end in
\* earlier calls, and the pages its last failed call for a URL had received.
IdleClient ==
    [pc |-> "idle", url |-> <<>>, per_page |-> 0, page |-> 0, all_items |-> <<>>,
     reqs |-> <<>>, result |-> None, hit |-> FALSE, done |-> {},
     part |-> [u \in ClientUrls |-> {}]]

\* History: what the frame's call adds to the client's past.
Past(f) ==
    [done |-> IF f.pc = "returned" /\ ~f.hit THEN f.done \cup {f.url} ELSE f.done,
     part |-> IF f.pc = "raised"
              THEN [f.part EXCEPT ![f.url] = {f.reqs[k] : k \in 1..Len(f.reqs) - 1}]
              ELSE f.part]

\* Lines 25-28: a client calls; a cache hit returns the file's content.
ClientCall ==
    /\ \E c \in Clients, x \in ClientCalls :
          LET f == procs[c]
              base == [IdleClient EXCEPT !.url = x[1], !.per_page = x[2],
                                         !.done = Past(f).done, !.part = Past(f).part]
          IN
          /\ f.pc \in {"idle", "returned", "raised"}
          /\ procs' = [procs EXCEPT ![c] =
                IF CacheHit(ClientDir, x[1])
                THEN [base EXCEPT !.pc = "returned", !.hit = TRUE,
                                  !.result = JsonLoad(files[ClientDir][CacheFile(x[1])])]
                ELSE [base EXCEPT !.pc = "request", !.page = 1]]
    /\ ops < MaxCalls
    /\ ops' = ops + 1
    /\ UNCHANGED <<files, remote, fetch, op, run, pool, changes, first, call>>

\* Line 38: the request for the client's current page leaves.
ClientSend ==
    /\ \E c \in Clients :
          /\ procs[c].pc = "request"
          /\ procs' = [procs EXCEPT ![c].pc = "response",
                                     ![c].reqs = Append(@, procs[c].page)]
    /\ UNCHANGED <<files, remote, fetch, op, run, pool, ops, changes, first, call>>

\* (a client that writes the cache file after every page)
ClientReceiveOkEachPage ==
    /\ \E c \in Clients :
          LET f == procs[c]
              items == ServerBody(remote, f.url, f.per_page, f.page)
              all == f.all_items \o Iter(items)
          IN
          /\ f.pc = "response"
          /\ files' = [files EXCEPT ![ClientDir] =
                          WriteFile(@, CacheFile(f.url), JsonDump(JList(all)))]
          /\ IF TerminalPage(Length(items), f.per_page)
             THEN procs' = [procs EXCEPT ![c].pc = "returned", ![c].all_items = all,
                                         ![c].result = JList(all)]
             ELSE procs' = [procs EXCEPT ![c].pc = "request", ![c].all_items = all,
                                         ![c].page = @ + 1]
    /\ UNCHANGED <<remote, fetch, op, run, pool, ops, changes, first, call>>

\* Lines 39-50 with a success status: the page is appended; after a
\* terminal page the collection is written to the cache file, in one
\* write of the whole file, and returned.
ClientReceiveOk ==
    /\ \E c \in Clients :
          LET f == procs[c]
              items == ServerBody(remote, f.url, f.per_page, f.page)
              all == f.all_items \o Iter(items)
          IN
          /\ f.pc = "response"
          /\ IF TerminalPage(Length(items), f.per_page)
             THEN /\ files' = [files EXCEPT ![ClientDir] =
                                  WriteFile(@, CacheFile(f.url), JsonDump(JList(all)))]
                  /\ procs' = [procs EXCEPT ![c].pc = "returned", ![c].all_items = all,
                                             ![c].result = JList(all)]
             ELSE /\ procs' = [procs EXCEPT ![c].pc = "request", ![c].all_items = all,
                                             ![c].page = @ + 1]
                  /\ files' = files
    /\ UNCHANGED <<remote, fetch, op, run, pool, ops, changes, first, call>>

\* (a client that saves the pages it has before it raises)
ClientReceiveErrorPersist ==
    /\ \E c \in Clients :
          /\ procs[c].pc = "response"
          /\ procs' = [procs EXCEPT ![c].pc = "raised"]
          /\ files' = [files EXCEPT ![ClientDir] =
                          WriteFile(@, CacheFile(procs[c].url),
                                    JsonDump(JList(procs[c].all_items)))]
    /\ UNCHANGED <<remote, fetch, op, run, pool, ops, changes, first, call>>

\* Line 39 with a non-success status: the client's call raises; nothing is
\* written.
ClientReceiveError ==
    /\ \E c \in Clients :
          /\ procs[c].pc = "response"
          /\ procs' = [procs EXCEPT ![c].pc = "raised"]
    /\ UNCHANGED <<files, remote, fetch, op, run, pool, ops, changes, first, call>>

(***************************************************************************)
(* process_github_repo.  The run is at "readme", "tree" or "load" while    *)
(* the fetch it called is under way, and ends "done", "skipped" (both      *)
(* return formatted_string) or "failed" (an exception leaves the function).*)
(***************************************************************************)
\* f"{owner}_{repo}_tree.json"
SnapshotFile(owner, repo) == owner \o <<"_">> \o repo \o <<"_", "tree", ".json">>

\* The pieces of the output text: a document is a sequence of pieces.
\* Fence stands for the three backquotes that open and close a block.
NL == "\n"
Fence == "[fence]"
ReadmePlaceholder == <<"README.md", ": Not found or error fetching README", NL, NL>>
ReadmeBlock(content) == <<"README.md", ":", NL, Fence, NL, content, NL, Fence, NL, NL>>
FileBlock(path, content) ==
    <<NL>> \o path \o <<":", NL, Fence, NL, content, NL, Fence, NL>>

\* v[key]: a list takes no string index, an object must have the key.
CanSubscript(v, key) == v.kind = "dict" /\ key \in DOMAIN v.at
SubscriptError(v) == IF v.kind = "dict" THEN "KeyError" ELSE "TypeError"

\* What base64.b64decode(info['content']).decode('utf-8') raises, if anything.
ContentError(info) ==
    IF ~CanSubscript(info, "content") THEN SubscriptError(info)
    ELSE IF ~Decodable(info.at.content) THEN "UnicodeDecodeError"
    ELSE ""

\* any(path.endswith(ext) for ext in SUPPORTED_FILETYPES)
Supported(path) == path[Len(path)] \in SUPPORTED_FILETYPES

\* The paths of the blobs with a supported extension, in the tree's order.
RECURSIVE FilePaths(_)
FilePaths(tree) ==
    IF tree = <<>> THEN <<>>
    ELSE LET item == Head(tree) IN
         (IF item.type = "blob" /\ Supported(item.path) THEN <<item.path>> ELSE <<>>)
             \o FilePaths(Tail(tree))

Fail(r, err) == [r EXCEPT !.pc = "failed", !.error = err]
\* History: the fetch called at this stage raised.
Raised(r) == [r EXCEPT !.errs = Append(@, r.pc)]
\* return formatted_string
Return(r, pc) == [r EXCEPT !.pc = pc, !.returned = TRUE, !.document = r.formatted_string]

\* The run starts: the README is fetched first.
RepoStart ==
    /\ op = "idle"
    /\ ops < MaxOps
    /\ \E d \in CacheDirs :
          LET u == ReadmeUrl(Owner, Repo)
              sf == SnapshotFile(Owner, Repo) IN
          /\ run' = [IdleRun EXCEPT
                         !.pc = "readme", !.cache_dir = d, !.calls = <<u>>,
                         !.snap0 = IF Exists(files[d], sf) THEN files[d][sf] ELSE None,
                         !.sha0 = remote.sha,
                         !.second = /\ run.pc \in {"done", "skipped", "failed"}
                                    /\ run.cache_dir = d
                                    /\ run.errs = <<>>
                                    /\ run.sha0 = remote.sha]
          /\ fetch' = FetchCall(u, d, DefaultPerPage)
          /\ first' = IF CacheHit(d, u)
                      THEN Remember(d, u, JsonLoad(files[d][CacheFile(u)]))
                      ELSE first
    /\ op' = "repo"
    /\ ops' = ops + 1
    /\ pool' = IdlePool
    /\ UNCHANGED <<files, remote, changes>>
    /\ UNCHANGED <<call, procs>>

\* The next fetch of the run: the call, and the history of its cache hit.
RunCalls(r, url) ==
    /\ run' = [r EXCEPT !.calls = Append(@, url)]
    /\ fetch' = FetchCall(url, r.cache_dir, DefaultPerPage)
    /\ first' = IF CacheHit(r.cache_dir, url)
                THEN Remember(r.cache_dir, url,
                              JsonLoad(files[r.cache_dir][CacheFile(url)]))
                ELSE first
    /\ UNCHANGED <<files, op, pool>>

\* (a run that writes the snapshot record whenever it ends)
RunEndsRecording(r) ==
    /\ run' = r
    /\ files' = [files EXCEPT ![r.cache_dir] =
                    WriteFile(@, SnapshotFile(Owner, Repo), JsonDump(r.tree_info))]
    /\ op' = "idle"
    /\ fetch' = IdleFetch
    /\ UNCHANGED <<first, pool>>

\* The run is over, with a document or with an exception.
RunEnds(r) ==
    /\ run' = r
    /\ op' = "idle"
    /\ fetch' = IdleFetch
    /\ UNCHANGED <<files, first, pool>>

\* After the loop: the tree descriptor becomes the snapshot record.
RunDone(r) ==
    /\ run' = Return(r, "done")
    /\ files' = [files EXCEPT ![r.cache_dir] =
                    WriteFile(@, SnapshotFile(Owner, Repo), JsonDump(r.tree_info))]
    /\ op' = "idle"
    /\ fetch' = IdleFetch
    /\ UNCHANGED <<first, pool>>

\* (a README fetch whose exception leaves the function)
OnReadmeErrorFatal == RunEnds(Fail(Raised(run), "HTTPError"))

\* except requests.exceptions.RequestException: the placeholder is the
\* README block and the run goes on to the tree.
OnReadmeError ==
    RunCalls([Raised(run) EXCEPT !.pc = "tree", !.formatted_string = ReadmePlaceholder],
             TreeUrl(Owner, Repo))

\* (a tree fetch whose exception is swallowed: the README block is returned)
OnTreeErrorSwallowed == RunEnds(Return(Raised(run), "skipped"))

\* Line 95: nothing catches the exception of the tree fetch.
OnTreeError == RunEnds(Fail(Raised(run), "HTTPError"))

\* Line 114: nothing catches the exception of a file's fetch.
OnLoadError == RunEnds(Fail(Raised(run), "HTTPError"))

\* Lines 88-95: the README block or, on a RequestException, the
\* placeholder; then the tree is fetched.
AfterReadme ==
    IF fetch.pc = "raised"
    THEN OnReadmeError
    ELSE LET readme_info == fetch.result IN
         IF ContentError(readme_info) # ""
         THEN RunEnds(Fail(run, ContentError(readme_info)))
         ELSE RunCalls([run EXCEPT !.pc = "tree",
                            !.formatted_string =
                                ReadmeBlock(B64Decode(readme_info.at.content))],
                       TreeUrl(Owner, Repo))

\* The loop over file_paths from index i on: the fetch of the next file, or
\* the end of the run.
LoadFrom(r, i) ==
    IF i > Len(r.file_paths)
    THEN RunDone(r)
    ELSE RunCalls([r EXCEPT !.pc = "load", !.i = i],
                  ContentUrl(Owner, Repo, r.file_paths[i]))

\* Lines 97-110: the comparison with the snapshot record, the skip, the
\* enumeration of the tree.
AfterTree ==
    IF fetch.pc = "raised"
    THEN OnTreeError
    ELSE LET tree_info == fetch.result
             dir == files[run.cache_dir]
             sf == SnapshotFile(Owner, Repo)
             r == [run EXCEPT !.tree_info = tree_info]
         IN
         IF Exists(dir, sf) /\ ~CanSubscript(JsonLoad(dir[sf]), "sha")
         THEN RunEnds(Fail(r, SubscriptError(JsonLoad(dir[sf]))))
         ELSE IF Exists(dir, sf) /\ ~CanSubscript(tree_info, "sha")
         THEN RunEnds(Fail(r, SubscriptError(tree_info)))
         ELSE IF Exists(dir, sf) /\ JsonLoad(dir[sf]).at.sha = tree_info.at.sha
         THEN RunEnds(Return(r, "skipped"))
         ELSE IF ~CanSubscript(tree_info, "tree")
         THEN RunEnds(Fail(r, SubscriptError(tree_info)))
         ELSE LoadFrom([r EXCEPT !.file_paths = FilePaths(tree_info.at.tree)], 1)

\* Lines 113-118: the decoded content of file i is appended as a block.
AfterLoad ==
    IF fetch.pc = "raised"
    THEN OnLoadError
    ELSE LET file_info == fetch.result
             path == run.file_paths[run.i] IN
         IF ContentError(file_info) # ""
         THEN RunEnds(Fail(run, ContentError(file_info)))
         ELSE LoadFrom([run EXCEPT
                           !.formatted_string =
                               @ \o FileBlock(path, B64Decode(file_info.at.content)),
                           !.loaded = Append(@, path)],
                       run.i + 1)

\* The fetch the run called is over: the run goes on from where it called.
RepoResume ==
    /\ op = "repo"
    /\ fetch.pc \in {"returned", "raised"}
    /\ CASE run.pc = "readme" -> AfterReadme
         [] run.pc = "tree" -> AfterTree
         [] run.pc = "load" -> AfterLoad
    /\ UNCHANGED <<remote, ops, changes, pool>>
    /\ UNCHANGED <<call, procs>>

(***************************************************************************)
(* The local folder.  A directory is its files and its subdirectories, in  *)
(* the order os.walk lists them.                                           *)
(***************************************************************************)
File(base, ext) == <<base, ext>>
Dir(name, fs, ds) == [name |-> name, files |-> fs, dirs |-> ds]

FolderPath == <<"root">>
Folder ==
    Dir("root",
        <<File("x", ".py"), File("b", ".txt"), File("y", ".md")>>,
        <<Dir("node_modules", <<File("c", ".py")>>, <<>>),
          Dir("sub", <<File("z", ".js")>>, <<>>)>>)

\* os.path.join(root, name)
Join(root, name) == root \o <<"/">> \o name

ExclusionSets ==
    {{}, {Join(FolderPath, <<"node_modules">>)},
     {Join(FolderPath, <<"node_modules">>), Join(FolderPath, <<"sub">>)},
     {<<"node_modules">>}}

\* The concatenation of the sequences f(1), ..., f(n).
RECURSIVE Flatten(_, _)
Flatten(f, n) == IF n = 0 THEN <<>> ELSE Flatten(f, n - 1) \o f[n]

\* (a directory is skipped when an exclusion occurs anywhere in its path)
PrunedSubstring(path, exclusions) ==
    \E e \in exclusions : \E i \in 0..Len(path) :
        i + Len(e) <= Len(path) /\ SubSeq(path, i + 1, i + Len(e)) = e

\* os.path.join(root, d) in exclusions: the directory is not descended into.
Pruned(path, exclusions) == path \in exclusions

\* os.walk, top-down: the supported files of a directory, then the
\* directories that are not excluded, each walked in turn.
RECURSIVE Walk(_, _, _)
Walk(root, node, exclusions) ==
    LET here == [k \in 1..Len(node.files) |->
                    IF node.files[k][2] \in SUPPORTED_FILETYPES
                    THEN <<Join(root, node.files[k])>> ELSE <<>>]
        below == [k \in 1..Len(node.dirs) |->
                    IF Pruned(Join(root, <<node.dirs[k].name>>), exclusions)
                    THEN <<>>
                    ELSE Walk(Join(root, <<node.dirs[k].name>>), node.dirs[k],
                              exclusions)]
    IN  Flatten(here, Len(node.files)) \o Flatten(below, Len(node.dirs))

get_folder_files(folder_path, exclusions) == Walk(folder_path, Folder, exclusions)

\* The folders and the exclusions get_folder_files is applied to: a folder
\* has up to MaxFiles files and up to two directories, each with its files
\* and, possibly, a directory of its own.
FileNames == {File("x", ".py"), File("b", ".txt"), File("y", ".md")}
FileLists ==
    {fs \in UNION {[1..n -> FileNames] : n \in 0..MaxFiles} :
        \A i, j \in 1..Len(fs) : i # j => fs[i] # fs[j]}
Inner == Dir("node_modules", <<File("c", ".py")>>, <<>>)
Level1(name) == {Dir(name, fs, ds) : fs \in FileLists, ds \in {<<>>, <<Inner>>}}
Folders ==
    {Dir("root", fs, ds) :
        fs \in FileLists,
        ds \in {<<>>} \cup {<<a>> : a \in Level1("node_modules") \cup Level1("sub")}
               \cup {<<a, b>> : a \in Level1("node_modules"), b \in Level1("sub")}}
ExclusionPaths ==
    {FolderPath, Join(FolderPath, <<"node_modules">>), Join(FolderPath, <<"sub">>),
     Join(Join(FolderPath, <<"sub">>), <<"node_modules">>), <<"node_modules">>}
Exclusions == {e \in SUBSET ExclusionPaths : Cardinality(e) <= 2}

\* get_folder_files(folder_path, exclusions) on a folder of the universe:
\* the generator is run to its end.
Enumerate ==
    /\ call.pc = "called"
    /\ call.fn = "get_folder_files"
    /\ call' = [call EXCEPT !.pc = "returned",
                            !.result = Walk(FolderPath, call.arg.folder,
                                            call.arg.exclusions)]
    /\ UNCHANGED <<files, remote, fetch, op, run, pool, ops, changes, first, procs>>

\* get_file_content: the text of a local file.
LocalText(path) == path[Len(path) - 1]
\* process_file: the block of a file, "error" when the file cannot be read
\* or decoded.
Failure == <<"error">>
process_file(path, bad) == IF path \in bad THEN Failure ELSE FileBlock(path, LocalText(path))

(***************************************************************************)
(* process_folder.  Pool.imap hands the paths to the workers in order;     *)
(* the workers finish in any order; list() takes the results in the order  *)
(* of the paths, and an exception of a task is raised when its result is   *)
(* taken.                                                                  *)
(***************************************************************************)
FolderStart ==
    /\ op = "idle"
    /\ ops < MaxOps
    /\ \E exclusions \in ExclusionSets, w \in 1..MaxWorkers :
          LET paths == get_folder_files(FolderPath, exclusions) IN
          \E bad \in {{}} \cup {{paths[k]} : k \in 1..Len(paths)} :
              pool' = [IdlePool EXCEPT !.pc = "running", !.file_paths = paths,
                                       !.workers = w, !.bad = bad]
    /\ op' = "folder"
    /\ ops' = ops + 1
    /\ fetch' = IdleFetch
    /\ run' = IdleRun
    /\ UNCHANGED <<files, remote, changes, first>>
    /\ UNCHANGED <<call, procs>>

\* A free worker takes the next path.
WorkerTake ==
    /\ pool.pc = "running"
    /\ Cardinality(pool.busy) < pool.workers
    /\ pool.next <= Len(pool.file_paths)
    /\ pool' = [pool EXCEPT !.busy = @ \cup {pool.next}, !.next = @ + 1]
    /\ UNCHANGED <<files, remote, fetch, op, run, ops, changes, first>>
    /\ UNCHANGED <<call, procs>>

\* A worker finishes its task: the block or the exception is the task's result.
WorkerFinish ==
    /\ pool.pc = "running"
    /\ \E k \in pool.busy :
          pool' = [pool EXCEPT
                      !.busy = @ \ {k},
                      !.results = [j \in (DOMAIN @) \cup {k} |->
                                      IF j = k
                                      THEN process_file(pool.file_paths[k], pool.bad)
                                      ELSE @[j]],
                      !.completed = Append(@, k)]
    /\ UNCHANGED <<files, remote, fetch, op, run, ops, changes, first>>
    /\ UNCHANGED <<call, procs>>

\* (results taken in the order the tasks finish, as imap_unordered does)
NextResultUnordered(p) ==
    IF Len(p.file_contents) < Len(p.completed)
    THEN p.completed[Len(p.file_contents) + 1] ELSE 0

\* imap's iterator: the next result list() takes is that of the next path.
NextResult(p) == Len(p.file_contents) + 1

\* (a failed task whose result is taken for a block)
RaisesNever(result) == FALSE

\* Taking the result of a failed task raises the task's exception.
Raises(result) == result = Failure

\* list() takes the next result in the order of the paths; the exception of
\* a failed task leaves process_folder and the pool is terminated.
Collect ==
    /\ pool.pc = "running"
    /\ LET k == NextResult(pool) IN
       /\ k \in DOMAIN pool.results
       /\ IF Raises(pool.results[k])
          THEN /\ pool' = [pool EXCEPT !.pc = "failed", !.busy = {}]
               /\ op' = "idle"
          ELSE /\ pool' = [pool EXCEPT !.file_contents = Append(@, pool.results[k])]
               /\ op' = op
    /\ UNCHANGED <<files, remote, fetch, run, ops, changes, first>>
    /\ UNCHANGED <<call, procs>>

\* ''.join(file_contents)
JoinAll(contents) == Flatten(contents, Len(contents))

\* Every result is taken: the document is returned.
FolderReturn ==
    /\ pool.pc = "running"
    /\ Len(pool.file_contents) = Len(pool.file_paths)
    /\ pool' = [pool EXCEPT !.pc = "done", !.returned = TRUE,
                            !.document = JoinAll(pool.file_contents)]
    /\ op' = "idle"
    /\ UNCHANGED <<files, remote, fetch, run, ops, changes, first>>
    /\ UNCHANGED <<call, procs>>

\* process_folder from its call to its end, in one step: the blocks of the
\* enumerated files joined in the order of the paths, or the exception of
\* the first file that cannot be read.  Nothing but the folder is read.
ProcessFolder ==
    /\ op = "idle"
    /\ ops < MaxOps
    /\ \E exclusions \in ExclusionSets :
          LET paths == get_folder_files(FolderPath, exclusions) IN
          \E bad \in {{}} \cup {{paths[k]} : k \in 1..Len(paths)} :
              LET blocks == [k \in 1..Len(paths) |-> process_file(paths[k], bad)] IN
              pool' = IF \E k \in 1..Len(paths) : Raises(blocks[k])
                      THEN [IdlePool EXCEPT !.pc = "failed", !.file_paths = paths,
                                            !.bad = bad]
                      ELSE [IdlePool EXCEPT !.pc = "done", !.file_paths = paths,
                                            !.bad = bad, !.file_contents = blocks,
                                            !.returned = TRUE,
                                            !.document = JoinAll(blocks)]
    /\ ops' = ops + 1
    /\ fetch' = IdleFetch
    /\ run' = IdleRun
    /\ UNCHANGED <<files, remote, op, changes, first, call, procs>>

\* The remote repository changes: items are added or removed, the tree gets
\* another sha.
RemoteChange ==
    /\ changes < MaxChanges
    /\ \E n \in 0..MaxItems, sha \in Shas :
          /\ [n |-> n, sha |-> sha] # remote
          /\ remote' = [n |-> n, sha |-> sha]
    /\ changes' = changes + 1
    /\ fetch' = IF fetch.pc # "idle" THEN [fetch EXCEPT !.dirty = TRUE] ELSE fetch
    /\ UNCHANGED <<files, op, run, ops, first, pool>>
    /\ UNCHANGED <<call, procs>>

\* parse_github_url is called and returns or raises.
Parse ==
    /\ call.pc = "called"
    /\ call.fn = "parse_github_url"
    /\ LET r == parse_github_url(call.arg) IN
       call' = [call EXCEPT !.pc = IF r.raised = "" THEN "returned" ELSE "raised",
                            !.result = r.value]
    /\ UNCHANGED <<files, remote, fetch, op, run, pool, ops, changes, first, procs>>

\* Everything but the frames of a function call and of the clients.
Start ==
    /\ files = [d \in CacheDirs |-> NoFile]
    /\ remote \in {[n |-> n, sha |-> "s1"] : n \in 0..MaxItems}
    /\ fetch = IdleFetch
    /\ op = "idle"
    /\ run = IdleRun
    /\ pool = IdlePool
    /\ ops = 0
    /\ changes = 0
    /\ first = [d \in CacheDirs |-> [u \in AllUrls |-> None]]

Init == Start /\ call = IdleCall /\ procs = NoProcs

\* A call of parse_github_url with any URL of the universe.
InitParse ==
    /\ Start
    /\ remote.n = 0
    /\ procs = NoProcs
    /\ call \in {[IdleCall EXCEPT !.pc = "called", !.fn = "parse_github_url", !.arg = u] :
                    u \in GitUrls}

Next ==
    \/ DirectFetch
    \/ SendRequest
    \/ ReceiveOk
    \/ ReceiveError
    \/ DirectReturn
    \/ RepoStart
    \/ RepoResume
    \/ RemoteChange

\* The remote side: direct fetches and runs of process_github_repo against a
\* server that may change.
Spec == Init /\ [][Next]_vars

NextFolder ==
    \/ FolderStart
    \/ WorkerTake
    \/ WorkerFinish
    \/ Collect
    \/ FolderReturn

NextContent ==
    \/ ContentFetch
    \/ SendRequest
    \/ ReceiveOk
    \/ ReceiveError
    \/ DirectReturn

\* The fetches of file contents alone, on the cache directories.
SpecContent == Init /\ [][NextContent]_vars

\* The clients, none of which has called yet.
InitClients ==
    /\ Start
    /\ call = IdleCall
    /\ procs = [c \in Clients |-> IdleClient]

NextClients ==
    \/ ClientCall
    \/ ClientSend
    \/ ClientReceiveOk
    \/ ClientReceiveError

\* Calls of fetch_repo_content by several clients at the same time.
SpecClients == InitClients /\ [][NextClients]_vars

\* A call of get_folder_files on any folder with any exclusions.
InitEnumerate ==
    /\ Start
    /\ remote.n = 0
    /\ procs = NoProcs
    /\ call \in {[IdleCall EXCEPT !.pc = "called", !.fn = "get_folder_files",
                                  !.arg = [folder |-> f, exclusions |-> e]] :
                    f \in Folders, e \in Exclusions}

\* get_folder_files applied to the folders of the universe.
SpecEnumerate == InitEnumerate /\ [][Enumerate]_vars

\* parse_github_url applied to the URLs of the universe.
SpecParse == InitParse /\ [][Parse]_vars

NextMixed ==
    \/ Next
    \/ ProcessFolder

\* The server holds all the items at first.
InitMixed == Init /\ remote.n = MaxItems

\* Fetches, remote runs and local runs one after another, in any order.
SpecMixed == InitMixed /\ [][NextMixed]_vars

\* The local side: runs of process_folder, which shares no state with the
\* remote side.
SpecFolder == Init /\ [][NextFolder]_vars

(***************************************************************************)
(* Properties.                                                             *)
(***************************************************************************)
Upto(n) == [k \in 1..n |-> k]

\* No run of process_github_repo gets past the enumeration of the tree: what
\* fetch_repo_content returns for a response object is the list of its keys,
\* which takes no string index.
NoRunReturns == run.pc \notin {"load", "done", "skipped"} /\ ~run.returned

\* C1: once a call for a URL and a cache directory has returned, every later
\* call for the same URL and directory issues no HTTP request and returns
\* the collection the first call returned.
C1_RepeatCallServedFromCache ==
    (fetch.pc = "returned" /\ fetch.prior # None)
        => (fetch.reqs = <<>> /\ fetch.result = fetch.prior)

\* A repeated call has returned although the server now holds something else.
C1_Witness ==
    /\ fetch.pc = "returned"
    /\ fetch.prior # None
    /\ fetch.url = IssuesUrl
    /\ fetch.prior.elems # <<>>
    /\ Resource(remote, fetch.url) # fetch.prior

\* C2: on a cache miss against a server that holds N items throughout the
\* call, the pages 1, 2, ... are requested one at a time in increasing
\* order, the call stops at the first page shorter than per_page, after
\* N \div per_page + 1 requests, and returns the N items in order.
C2_Pagination ==
    LET r == Resource(remote, fetch.url) IN
    /\ fetch.pc \in {"request", "response", "raised"} =>
          /\ fetch.reqs = Upto(Len(fetch.reqs))
          /\ Len(fetch.reqs) = IF fetch.pc = "request" THEN fetch.page - 1 ELSE fetch.page
    /\ (fetch.pc \in {"request", "response"} /\ r.kind = "list" /\ ~fetch.dirty) =>
          /\ fetch.all_items = SubSeq(r.elems, 1, (fetch.page - 1) * fetch.per_page)
          /\ (fetch.page - 1) * fetch.per_page <= Len(r.elems)
    /\ (fetch.pc = "returned" /\ fetch.reqs # <<>> /\ r.kind = "list" /\ ~fetch.dirty) =>
          /\ fetch.reqs = Upto((Len(r.elems) \div fetch.per_page) + 1)
          /\ fetch.result = JList(r.elems)

\* Pages of 2, 2 and 1 items: three requests, five items.
C2_Witness ==
    /\ fetch.pc = "returned"
    /\ ~fetch.dirty
    /\ fetch.per_page = 2
    /\ fetch.reqs = <<1, 2, 3>>
    /\ Len(fetch.result.elems) = 5

\* C5: of two runs in succession on one cache directory with the remote tree
\* unchanged and no fetch error in either, the second ends on the skip path
\* and returns the README block alone.
C5_SecondRunSkips ==
    (/\ run.second
     /\ run.pc \in {"done", "skipped", "failed"}
     /\ run.errs = <<>>
     /\ remote.sha = run.sha0) =>
        /\ run.pc = "skipped"
        /\ run.returned
        /\ run.document = ReadmeBlock(ReadmeText)

\* C6: a non-success status on page k ends the call with the exception; the
\* request of page k is the last one of the call and the cache directory is
\* as it was when the call began, whatever pages came before.
C6_ErrorAborts ==
    fetch.pc = "raised" =>
        /\ files[fetch.cache_dir] = fetch.files0
        /\ ~CacheHit(fetch.cache_dir, fetch.url)
        /\ fetch.reqs = Upto(fetch.page)
        /\ ~ENABLED SendRequest

\* The third page failed after two pages of items.
C6_Witness ==
    /\ fetch.pc = "raised"
    /\ fetch.page = 3
    /\ Len(fetch.all_items) = 4

\* C7: a fetch error on the README does not end the run: the placeholder is
\* the README block and the tree is fetched next.
C7_ReadmeErrorNotFatal ==
    (run.errs # <<>> /\ run.errs[1] = "readme") =>
        /\ Len(run.formatted_string) >= Len(ReadmePlaceholder)
        /\ SubSeq(run.formatted_string, 1, Len(ReadmePlaceholder)) = ReadmePlaceholder
        /\ Len(run.calls) >= 2
        /\ run.calls[2] = TreeUrl(Owner, Repo)
        /\ (run.pc = "failed" => (Len(run.errs) > 1 \/ run.error # "HTTPError"))

\* The README fetch failed and the request for the tree is on its way.
C7_Witness ==
    /\ op = "repo"
    /\ run.pc = "tree"
    /\ run.errs = <<"readme">>
    /\ run.formatted_string = ReadmePlaceholder
    /\ fetch.pc = "response"
    /\ fetch.url = TreeUrl(Owner, Repo)

\* C8: a fetch error on the tree or on a file's content ends the run with
\* that error: nothing is returned and the failing fetch is the run's last.
C8_FetchErrorFatal ==
    (\E k \in DOMAIN run.errs : run.errs[k] \in {"tree", "load"}) =>
        /\ run.pc = "failed"
        /\ run.error = "HTTPError"
        /\ ~run.returned
        /\ run.document = <<>>
        /\ op # "repo"
        /\ fetch.pc = "idle"
        /\ run.errs[Len(run.errs)] \in {"tree", "load"}
        /\ Len(run.calls) = 2 + Len(run.loaded)
                              + (IF run.errs[Len(run.errs)] = "load" THEN 1 ELSE 0)

\* The tree fetch failed, after the README fetch had failed too.
C8_Witness ==
    /\ run.pc = "failed"
    /\ run.errs = <<"readme", "tree">>
    /\ run.calls[2] = TreeUrl(Owner, Repo)
    /\ run.formatted_string = ReadmePlaceholder

\* The blocks of the local paths, in the order of the paths.
LocalBlocks(paths) ==
    Flatten([k \in 1..Len(paths) |-> FileBlock(paths[k], LocalText(paths[k]))],
            Len(paths))

\* C9: the loader's output is the concatenation of the blocks in the order
\* of the input list, whatever the number of workers and the order in which
\* the loads finish.
C9_OutputInInputOrder ==
    pool.returned => pool.document = LocalBlocks(pool.file_paths)

\* Two workers, four files, and the second file was finished before the first.
C9_Witness ==
    /\ pool.pc = "done"
    /\ pool.workers = 2
    /\ Len(pool.file_paths) = 4
    /\ pool.completed[1] = 2
    /\ pool.document # <<>>

\* C10: when a file cannot be read or decoded the loading ends with the
\* error and no document is returned, not even the blocks loaded so far.
C10_FailureAborts ==
    (pool.pc \in {"done", "failed"} /\ \E k \in DOMAIN pool.file_paths :
                                            pool.file_paths[k] \in pool.bad) =>
        (pool.pc = "failed" /\ ~pool.returned /\ pool.document = <<>>)

\* The third file failed after the blocks of two files were taken.
C10_Witness ==
    /\ pool.pc = "failed"
    /\ Len(pool.file_contents) = 2
    /\ pool.file_paths[3] \in pool.bad
    /\ op = "idle"

\* C11: within one cache directory two distinct request URLs never share a
\* cache file: a call that is served from the cache returns what an earlier
\* call for the same URL stored.
C11_HitIsOwnPayload ==
    (fetch.pc = "returned" /\ fetch.reqs = <<>>) => fetch.prior # None

\* The pieces of a path that are not empty: the maximal runs of tokens
\* other than "/".
RunsOf(path) ==
    LET starts == {i \in 1..Len(path) :
                      path[i] # "/" /\ (i = 1 \/ path[i - 1] = "/")}
        end(i) == CHOOSE j \in i..Len(path) :
                      /\ \A k \in i..j : path[k] # "/"
                      /\ (j = Len(path) \/ path[j + 1] = "/")
    IN  {SubSeq(path, i, end(i)) : i \in starts}

\* The first two runs of a path with at least two.
FirstTwoRuns(path) ==
    LET starts == {i \in 1..Len(path) :
                      path[i] # "/" /\ (i = 1 \/ path[i - 1] = "/")}
        i1 == CHOOSE i \in starts : \A j \in starts : i <= j
        i2 == CHOOSE i \in starts \ {i1} : \A j \in starts \ {i1} : i <= j
        at(i) == CHOOSE seg \in RunsOf(path) :
                      \E j \in i..Len(path) : seg = SubSeq(path, i, j)
                          /\ (j = Len(path) \/ path[j + 1] = "/")
    IN  <<at(i1), at(i2)>>

\* C12: parse_github_url returns the first two non-empty segments of the
\* path as (owner, name) when there are two, and fails when there are
\* fewer; it never returns an empty owner or an empty name.
C12_FirstTwoNonEmptySegments ==
    (call.fn = "parse_github_url" /\ call.pc \in {"returned", "raised"}) =>
        LET path == UrlPath(call.arg)
            starts == {i \in 1..Len(path) :
                          path[i] # "/" /\ (i = 1 \/ path[i - 1] = "/")}
        IN  IF Cardinality(starts) >= 2
            THEN /\ call.pc = "returned"
                 /\ call.result = FirstTwoRuns(path)
                 /\ call.result[1] # <<>>
                 /\ call.result[2] # <<>>
            ELSE call.pc = "raised"

\* The files of a folder, each with the directories it lies beneath, the
\* folder itself being the first of them.
RECURSIVE FilesBeneath(_, _, _)
FilesBeneath(root, node, above) ==
    LET under == above \cup {root} IN
    {[path |-> Join(root, node.files[k]), under |-> under] : k \in 1..Len(node.files)}
        \cup UNION {FilesBeneath(Join(root, <<node.dirs[k].name>>), node.dirs[k], under) :
                       k \in 1..Len(node.dirs)}

\* The set of the paths a call yielded, each yielded once.
YieldedOnce(result, expected) ==
    /\ {result[k] : k \in 1..Len(result)} = expected
    /\ Len(result) = Cardinality(expected)

\* C13 as stated: the files yielded are exactly the supported files that lie
\* beneath no directory whose full path equals an exclusion.
C13_YieldsExactly ==
    (call.fn = "get_folder_files" /\ call.pc = "returned") =>
        YieldedOnce(call.result,
                    {f.path : f \in {g \in FilesBeneath(FolderPath, call.arg.folder, {}) :
                                        /\ Supported(g.path)
                                        /\ g.under \cap call.arg.exclusions = {}}})

\* C13, amended: the files yielded are exactly the supported files that lie
\* beneath no directory, other than the walked folder itself, whose full
\* path equals an exclusion; a directory whose path only contains an
\* exclusion is descended into.
C13_YieldsExactlyBelowFolder ==
    (call.fn = "get_folder_files" /\ call.pc = "returned") =>
        YieldedOnce(call.result,
                    {f.path : f \in {g \in FilesBeneath(FolderPath, call.arg.folder, {}) :
                                        /\ Supported(g.path)
                                        /\ (g.under \ {FolderPath})
                                               \cap call.arg.exclusions = {}}})

\* root/node_modules is excluded and its files are not yielded, while the
\* file of root/sub/node_modules, whose path contains the other exclusion
\* "node_modules", is.
C13_Witness ==
    /\ call.fn = "get_folder_files"
    /\ call.pc = "returned"
    /\ call.arg.exclusions = {Join(FolderPath, <<"node_modules">>), <<"node_modules">>}
    /\ call.arg.folder.dirs = <<Dir("node_modules", <<File("x", ".py")>>, <<Inner>>),
                                Dir("sub", <<File("b", ".txt")>>, <<Inner>>)>>
    /\ call.arg.folder.files = <<File("x", ".py")>>
    /\ call.result = <<Join(FolderPath, File("x", ".py")),
                       Join(Join(Join(FolderPath, <<"sub">>), <<"node_modules">>),
                            File("c", ".py"))>>

\* C14: the files a run loads are the blobs of the fetched tree with a
\* supported extension, in the order of the tree: a run that has fetched the
\* tree of an unchanged server and met no later fetch error has loaded
\* exactly those.
C14_LoadsEnumeratedFiles ==
    (/\ run.pc \in {"done", "skipped", "failed"}
     /\ Len(run.calls) >= 2
     /\ \A k \in DOMAIN run.errs : run.errs[k] = "readme"
     /\ changes = 0) =>
        /\ run.file_paths = FilePaths(TreeEntries(remote.sha))
        /\ run.loaded = run.file_paths

\* The client has fetched the URL to its last page, in its running call or
\* in an earlier one.
CompletedBy(c, url) == url \in Past(procs[c]).done

\* C15 as stated: a call after a failed call requests no page that the
\* failed call had received, and nothing of a URL fetched to the end.
C15_NoPageRequestedAgain ==
    \A c \in Clients :
        LET f == procs[c] IN
        f.pc # "idle" =>
            /\ \A k \in 1..Len(f.reqs) : f.reqs[k] \notin f.part[f.url]
            /\ (f.url \in f.done => f.reqs = <<>>)

\* C15, amended: a URL that was fetched to its last page is served from the
\* cache and not requested again; nothing else is served from the cache,
\* so a call for a URL whose fetch had failed requests its pages again from
\* page 1, those the failed call had received included.
C15_OnlyCompletedFetchesServed ==
    \A c \in Clients :
        LET f == procs[c] IN
        f.pc # "idle" =>
            /\ (f.url \in f.done => f.hit)
            /\ (f.hit => (f.reqs = <<>> /\ \E c2 \in Clients : CompletedBy(c2, f.url)))
            /\ (~f.hit => /\ f.reqs = Upto(Len(f.reqs))
                          /\ Len(f.reqs) = IF f.pc = "request" THEN f.page - 1
                                            ELSE f.page)

\* The client fetched the README, its fetch of the issues failed on page 3,
\* and its next call for the issues has requested page 1 again.
C15_Witness ==
    \E c \in Clients :
        /\ procs[c].url = IssuesUrl
        /\ procs[c].done = {ReadmeUrl(Owner, Repo)}
        /\ procs[c].part[IssuesUrl] = {1, 2}
        /\ ~procs[c].hit
        /\ procs[c].pc = "response"
        /\ procs[c].reqs = <<1>>

\* The block of the fixed template: newline, identifier, colon, newline,
\* fence, newline, content, newline, fence, newline.
TemplateBlock(identifier, content) ==
    <<NL>> \o identifier \o <<":", NL, Fence, NL, content, NL, Fence, NL>>

\* The blocks of the files of a tree, in the order of the tree.
TemplateBlocks(paths) ==
    Flatten([k \in 1..Len(paths) |-> TemplateBlock(paths[k], BlobText(paths[k]))],
            Len(paths))

\* C16: a run that is not skipped returns a document of template blocks, the
\* README block first and in the same template, then the blocks of the
\* files in the order of the tree.
C16_DocumentOfTemplateBlocks ==
    (/\ run.pc \in {"done", "failed"}
     /\ run.errs = <<>>
     /\ changes = 0) =>
        /\ run.returned
        /\ run.document = TemplateBlock(<<"README.md">>, ReadmeText)
                              \o TemplateBlocks(FilePaths(TreeEntries(remote.sha)))

\* The text of the snapshot record of the repository in a cache directory,
\* None when there is none.
Snapshot(dir) ==
    IF Exists(dir, SnapshotFile(Owner, Repo)) THEN dir[SnapshotFile(Owner, Repo)] ELSE None

\* A step changes the snapshot record only as the last step of a run whose
\* enumerated files are all loaded, and to the tree descriptor of that run.
SnapshotStep ==
    \A d \in CacheDirs :
        Snapshot(files'[d]) # Snapshot(files[d]) =>
            /\ d = run.cache_dir
            /\ run.pc \in {"tree", "load"}
            /\ run'.pc = "done"
            /\ run'.loaded = run'.file_paths
            /\ run'.tree_info # None
            /\ Snapshot(files'[d]) = JsonDump(run'.tree_info)

\* A run that is under way, was skipped or has failed has left the record
\* as it was when the run began.
SnapshotKept ==
    run.pc \in {"readme", "tree", "load", "skipped", "failed"} =>
        Snapshot(files[run.cache_dir]) = run.snap0

\* C17: a run writes the snapshot record at most once, as its last step
\* after every enumerated file is loaded, and writes the tree descriptor it
\* fetched; a run that ends on the skip path or with an error leaves the
\* record unchanged.
C17_SnapshotFrame == [][SnapshotStep]_vars /\ []SnapshotKept

\* A run has failed at the README's content after it had written the
\* README's cache entry: the cache directory has changed, the snapshot
\* record has not.
C17_Witness ==
    /\ run.pc = "failed"
    /\ run.error = "TypeError"
    /\ run.errs = <<>>
    /\ CacheHit(run.cache_dir, ReadmeUrl(Owner, Repo))
    /\ Snapshot(files[run.cache_dir]) = run.snap0

\* C18: when the response body is a single JSON object, the call returns
\* that object with its fields, on the cache miss and on every cache hit.
C18_ObjectReturnedIntact ==
    (/\ fetch.pc = "returned"
     /\ Resource(remote, fetch.url).kind = "dict"
     /\ changes = 0) =>
        /\ fetch.result = Resource(remote, fetch.url)
        /\ \A key \in DOMAIN Resource(remote, fetch.url).at :
              CanSubscript(fetch.result, key)

\* A step leaves every cache entry there is as it is.
CacheEntriesKept ==
    \/ files' = files
    \/ \A d \in CacheDirs : \A name \in DOMAIN files[d] :
          name # SnapshotFile(Owner, Repo) =>
              (Exists(files'[d], name) /\ files'[d][name] = files[d][name])

\* A step of process_folder leaves the cache directories as they are, and
\* what it returns is made of the folder's files alone.
FolderStepLocal ==
    (ops' # ops /\ pool'.pc # "idle") =>
        /\ files' = files
        /\ (pool'.returned => pool'.document = LocalBlocks(pool'.file_paths))

\* C19: a cache entry, once created, is never modified or deleted by any
\* fetch or run, whatever the server holds by then; process_folder neither
\* reads nor writes the cache directories.
C19_CacheWriteOnce == [][CacheEntriesKept /\ FolderStepLocal]_vars

\* The issues were fetched, the server's collection has changed since, a
\* local run has ended, and the cache entry is the collection first fetched.
C19_Witness ==
    /\ pool.pc = "done"
    /\ pool.document # <<>>
    /\ changes = 1
    /\ \E d \in CacheDirs :
          /\ CacheHit(d, IssuesUrl)
          /\ JsonLoad(files[d][CacheFile(IssuesUrl)]) = first[d][IssuesUrl]
          /\ first[d][IssuesUrl] # Resource(remote, IssuesUrl)

\* C20: with clients interleaved on one cache directory, the cache entry of
\* a collection is absent or holds all the pages of the collection, never a
\* strict prefix, and a call that returns, from the cache or not, returns
\* the whole collection.
C20_EntryIsWholeCollection ==
    /\ \A u \in ClientUrls :
          (Resource(remote, u).kind = "list" /\ CacheHit(ClientDir, u)) =>
              JsonLoad(files[ClientDir][CacheFile(u)]) = Resource(remote, u)
    /\ \A c \in Clients :
          (procs[c].pc = "returned" /\ Resource(remote, procs[c].url).kind = "list") =>
              procs[c].result = Resource(remote, procs[c].url)

\* One client's fetch failed on page 3 with four items received; the other
\* client, which had fetched the collection meanwhile, finds the entry and
\* returns the five items.
C20_Witness ==
    /\ procs["p1"].pc = "raised"
    /\ procs["p1"].page = 3
    /\ Len(procs["p1"].all_items) = 4
    /\ procs["p2"].pc = "returned"
    /\ procs["p2"].hit
    /\ procs["p2"].url = IssuesUrl
    /\ Len(procs["p2"].result.elems) = 5

====
